---- MODULE Spec2Model ----
(***************************************************************************)
(* Model of budget_app.py: a Streamlit script that is re-executed from the *)
(* top on every user interaction.  A script run that makes one database   *)
(* round trip is one action.  A run that writes is three: the load of line *)
(* 131, the write (save_row or delete_row, its own transaction), and the   *)
(* second run that st.experimental_rerun() starts.  Between any two of     *)
(* them another session of the app, working on the same table, may commit  *)
(* an insert or a delete of its own.  logged and tries live in             *)
(* st.session_state, one per browser session: a new session of the same    *)
(* process starts from lines 110-113 again.                                *)
(*                                                                         *)
(* Amounts are whole numbers (the float arithmetic of pandas is not        *)
(* modelled).  The expenses table lives in the database, outside the       *)
(* process; a database call either succeeds or raises SQLAlchemyError.     *)
(***************************************************************************)
EXTENDS Integers, Sequences, FiniteSets, TLC

VARIABLES
    expenses,   \* the rows of the database table "expenses" (a set of rows)
    next_id,    \* the next value of the table's id sequence
    logged,     \* st.session_state.logged
    tries,      \* st.session_state.tries
    df,         \* the DataFrame bound to `df` in the last script run
    errors,     \* the st.error boxes shown by the last script run
    exit,       \* how the last script run ended
    summary,    \* the three metrics of section 10, when rendered
    downloads,  \* the two download buttons of section 11, when rendered
    ops,        \* the ledger operations performed in the last cycle
    event,      \* the interaction that started the last cycle, and its outcome
    pc,         \* where this session's script is: "idle" between cycles
    others      \* the number of writes other sessions have committed

vars == <<expenses, next_id, logged, tries, df, errors, exit, summary,
          downloads, ops, event, pc, others>>

(***************************************************************************)
(* Bounds and program constants.                                           *)
(***************************************************************************)
MaxId == 3

MaxOther == 1

BUDGET == 400000

MAX_TRIES == 5

UserNames == {"Chad", "Eve"}
Passwords == {"s3cret", "guess"}

(***************************************************************************)
(* Database cells.  A numeric column holds a number, NULL, or (in a        *)
(* damaged row) text; a boolean column holds a boolean or NULL.            *)
(***************************************************************************)
Num(v) == [k |-> "num", v |-> v]
NullNum == [k |-> "null", v |-> 0]
TextNum == [k |-> "text", v |-> 0]
NaN == [k |-> "nan", v |-> 0]
Bool(b) == [k |-> "bool", b |-> b]
NullBool == [k |-> "null", b |-> FALSE]

\* pd.to_datetime(d): a calendar date becomes a Timestamp at midnight.
to_datetime(d) == [day |-> d, ns |-> 0]

\* Timestamp.date(): the calendar date of a Timestamp.
date_of(ts) == ts.day

\* pd.to_numeric(x, errors="coerce"): what does not parse becomes NaN.
to_numeric(c) == IF c.k = "num" THEN c ELSE NaN

\* Series.fillna(0.0) on a numeric column.
fillna_num(c) == IF c.k \in {"nan", "null"} THEN Num(0) ELSE c

\* Series.fillna(False).astype(bool) on the out_of_pocket column.
fillna_bool(c) == IF c.k = "null" THEN FALSE ELSE c.b

\* np.where(cond, 0.0, charged), one element.
np_where(cond, a, b) == IF cond THEN a ELSE b

(***************************************************************************)
(* Column definitions.                                                     *)
(***************************************************************************)
PRETTY == [date |-> "Date", vendor |-> "Vendor", description |-> "Description",
           location |-> "Location", recovery_type |-> "Recovery Type",
           charged_amount |-> "Charged Amount",
           reimbursed_amount |-> "Reimbursed Amount",
           invoice |-> "Invoice #", chq_req |-> "CHQ REQ #",
           out_of_pocket |-> "Out of Pocket?"]

Range(s) == {s[i] : i \in DOMAIN s}

RECURSIVE Sum(_)
\* Series.sum(): 0 for an empty selection.
Sum(s) == IF s = <<>> THEN 0 ELSE Head(s) + Sum(Tail(s))

(***************************************************************************)
(* The add form: what the user can submit.  The date and the text fields   *)
(* are tied to the checkbox, and two submissions are considered, so that   *)
(* the number of distinct rows stays small.                                *)
(***************************************************************************)
VendorOf(d) == IF d = 1 THEN "acme" ELSE "bolt"
InvoiceOf(d) == IF d = 1 THEN "INV-1" ELSE ""

DayOf(o) == IF o THEN 2 ELSE 1

Form(a, o) ==
    [date |-> DayOf(o), vendor |-> VendorOf(DayOf(o)),
     description |-> "paper", location |-> "hq", recovery_type |-> "full",
     charged_amount |-> a, invoice |-> InvoiceOf(DayOf(o)),
     chq_req |-> "CHQ-7", out_of_pocket |-> o]

Forms == {Form(1000, FALSE), Form(500, TRUE)}

\* Line 150: the reimbursement shown in the form and sent with the row.
reimb(f) == IF f.out_of_pocket THEN 0 ELSE f.charged_amount

\* Lines 155-166: the dict handed to save_row.
form_data(f) ==
    [date |-> to_datetime(f.date), vendor |-> f.vendor,
     description |-> f.description, location |-> f.location,
     recovery_type |-> f.recovery_type, charged_amount |-> f.charged_amount,
     reimbursed_amount |-> reimb(f), invoice |-> f.invoice,
     chq_req |-> f.chq_req, out_of_pocket |-> f.out_of_pocket]

(***************************************************************************)
(* The store.                                                              *)
(***************************************************************************)
\* ENGINE.begin(): the block's statement is committed when the block ends
\* normally and rolled back when it raises.
ENGINE_begin(before, after, ok) == IF ok THEN after ELSE before

\* Variant: :invoice and :chq_req bound to each other's column.
insert_row_swapped(nid, data) ==
    [id |-> nid, date |-> data.date, vendor |-> data.vendor,
     description |-> data.description, location |-> data.location,
     recovery_type |-> data.recovery_type,
     charged_amount |-> Num(data.charged_amount),
     reimbursed_amount |-> Num(data.reimbursed_amount),
     invoice |-> data.chq_req, chq_req |-> data.invoice,
     out_of_pocket |-> Bool(data.out_of_pocket)]

\* The INSERT of save_row: the id comes from the table's sequence, the
\* other columns from the bound parameters.
insert_row(nid, data) ==
    [id |-> nid, date |-> data.date, vendor |-> data.vendor,
     description |-> data.description, location |-> data.location,
     recovery_type |-> data.recovery_type,
     charged_amount |-> Num(data.charged_amount),
     reimbursed_amount |-> Num(data.reimbursed_amount),
     invoice |-> data.invoice, chq_req |-> data.chq_req,
     out_of_pocket |-> Bool(data.out_of_pocket)]

save_row(table, nid, data, ok) ==
    ENGINE_begin(table, table \cup {insert_row(nid, data)}, ok)

\* Variant: WHERE id <= :rid
delete_where_le(table, rid) == {r \in table : r.id > rid}

\* DELETE FROM expenses WHERE id = :rid
delete_where(table, rid) == {r \in table : r.id # rid}

\* Variant: the DELETE has lost its WHERE clause.
delete_row_all(table, rid, ok) == ENGINE_begin(table, {}, ok)

delete_row(table, rid, ok) ==
    ENGINE_begin(table, delete_where(table, rid), ok)

RECURSIVE order_by_id(_)
\* ORDER BY id
order_by_id(table) ==
    IF table = {} THEN <<>>
    ELSE LET first == CHOOSE r \in table : \A q \in table : r.id <= q.id
         IN  <<first>> \o order_by_id(table \ {first})

\* Variant: the stored reimbursed_amount is read back and trusted.
normalise_stored(r) ==
    LET oop == fillna_bool(r.out_of_pocket)
        amt == fillna_num(to_numeric(r.charged_amount)).v
    IN  [id |-> r.id, date |-> r.date, vendor |-> r.vendor,
         description |-> r.description, location |-> r.location,
         recovery_type |-> r.recovery_type, charged_amount |-> amt,
         invoice |-> r.invoice, chq_req |-> r.chq_req,
         out_of_pocket |-> oop,
         reimbursed_amount |-> fillna_num(to_numeric(r.reimbursed_amount)).v]

\* Lines 64-74 on one row of the SELECT (which does not read the stored
\* reimbursed_amount).
normalise(r) ==
    LET oop == fillna_bool(r.out_of_pocket)
        amt == fillna_num(to_numeric(r.charged_amount)).v
    IN  [id |-> r.id, date |-> r.date, vendor |-> r.vendor,
         description |-> r.description, location |-> r.location,
         recovery_type |-> r.recovery_type, charged_amount |-> amt,
         invoice |-> r.invoice, chq_req |-> r.chq_req,
         out_of_pocket |-> oop,
         reimbursed_amount |-> np_where(oop, 0, amt)]

\* Variant: the read failure is swallowed without an st.error box.
load_data_silent(table, ok) ==
    IF ~ok
    THEN [df |-> <<>>, errors |-> {}]
    ELSE LET rows == order_by_id(table)
         IN  [df |-> [i \in DOMAIN rows |-> normalise(rows[i])],
              errors |-> {}]

\* load_data(): the DataFrame and the st.error boxes it shows.
load_data(table, ok) ==
    IF ~ok
    THEN [df |-> <<>>, errors |-> {"db_error"}]
    ELSE LET rows == order_by_id(table)
         IN  [df |-> [i \in DOMAIN rows |-> normalise(rows[i])],
              errors |-> {}]

(***************************************************************************)
(* Section 5: login.                                                       *)
(***************************************************************************)
\* bcrypt, reduced to what the script relies on: checkpw(p, h) holds
\* exactly when h is the hash of p.
bcrypt_hash(p) == <<"bcrypt", p>>
bcrypt_checkpw(p, h) == bcrypt_hash(p) = h

USERS == [u \in {"Chad"} |-> bcrypt_hash("s3cret")]

authenticate(user, pwd) ==
    /\ user \in DOMAIN USERS
    /\ bcrypt_checkpw(pwd, USERS[user])

\* Lines 115-127: where a script run goes at the login gate.
gate(lg, tr) ==
    IF lg THEN "pass"
    ELSE IF tr >= MAX_TRIES THEN "locked" ELSE "login_form"

(***************************************************************************)
(* Sections 9-11: delete choices, summary, table and downloads.            *)
(***************************************************************************)
\* The f-string of line 177.
label(r) == <<r.vendor, date_of(r.date), r.id>>

\* Lines 176-179: a dict comprehension, a later row replacing an earlier
\* one with the same label.
choices(d) ==
    [l \in {label(d[i]) : i \in DOMAIN d} |->
        LET last == CHOOSE i \in DOMAIN d :
                        /\ label(d[i]) = l
                        /\ \A j \in DOMAIN d : label(d[j]) = l => j <= i
        IN  d[last].id]

\* st.selectbox: the chosen option, or the first one when the chosen
\* option is not offered.
selectbox(d, sel) ==
    IF sel \in DOMAIN choices(d) THEN sel ELSE label(d[1])

mask(d) == [i \in DOMAIN d |-> d[i].out_of_pocket]

not_mask(d) == [i \in DOMAIN d |-> ~mask(d)[i]]

\* Variant: the selection comes out in reverse order.
loc_reversed(d, m) ==
    LET idx == {i \in DOMAIN d : m[i]}
    IN  [k \in 1..Cardinality(idx) |->
            d[CHOOSE i \in idx : Cardinality({j \in idx : j >= i}) = k]]

\* df.loc[m]: the rows selected by a boolean mask, in their order.
loc(d, m) ==
    LET idx == {i \in DOMAIN d : m[i]}
    IN  [k \in 1..Cardinality(idx) |->
            d[CHOOSE i \in idx : Cardinality({j \in idx : j <= i}) = k]]

\* Variant: the out-of-pocket sum taken over the rows that are not.
spent_oop_inverted(d) ==
    LET sel == loc(d, not_mask(d))
    IN  Sum([i \in DOMAIN sel |-> sel[i].charged_amount])

spent_oop(d) ==
    LET sel == loc(d, mask(d))
    IN  Sum([i \in DOMAIN sel |-> sel[i].charged_amount])

spent_diff(d) ==
    LET sel == loc(d, not_mask(d))
    IN  Sum([i \in DOMAIN sel |->
                sel[i].charged_amount - sel[i].reimbursed_amount])

spent_tot(d) == spent_oop(d) + spent_diff(d)

remaining(d) == BUDGET - spent_tot(d)

NoSummary == [shown |-> FALSE, total |-> 0, spent |-> 0, remaining |-> 0]

metrics(d) ==
    [shown |-> TRUE, total |-> BUDGET, spent |-> spent_tot(d),
     remaining |-> remaining(d)]

pretty_name(c) == IF c \in DOMAIN PRETTY THEN PRETTY[c] ELSE c

\* prettify on one row: columns renamed, id dropped.
prettify_row(r) ==
    LET cols == (DOMAIN r) \ {"id"}
    IN  [p \in {pretty_name(c) : c \in cols} |->
            r[CHOOSE c \in cols : pretty_name(c) = p]]

prettify(d) == [i \in DOMAIN d |-> prettify_row(d[i])]

\* to_xlsx: one sheet named "Expenses" holding the rows, without the index.
to_xlsx(d) == [sheet |-> "Expenses", rows |-> d]

download_buttons(d) ==
    <<[file |-> "Reimbursed_Expenses.xlsx",
       data |-> to_xlsx(prettify(loc(d, not_mask(d))))],
      [file |-> "OutOfPocket_Expenses.xlsx",
       data |-> to_xlsx(prettify(loc(d, mask(d))))]>>

(***************************************************************************)
(* State after the first script run of a session: nobody is logged in and  *)
(* the login form is on the page.  The table may already hold rows: one    *)
(* that another writer left there, with any reimbursed_amount, a NULL flag *)
(* or a damaged amount, and a second one next to it.                       *)
(***************************************************************************)
LegacyCells ==
    {<<Num(1000), Bool(TRUE)>>, <<Num(1000), NullBool>>,
     <<NullNum, Bool(FALSE)>>, <<TextNum, Bool(TRUE)>>}

LegacyRows ==
    {[id |-> 1, date |-> to_datetime(2), vendor |-> "old", description |-> "",
      location |-> "", recovery_type |-> "", charged_amount |-> c[1],
      reimbursed_amount |-> Num(777), invoice |-> "", chq_req |-> "",
      out_of_pocket |-> c[2]] : c \in LegacyCells}

\* A second row, as save_row stores one.
LegacySecondRow ==
    [id |-> 2, date |-> to_datetime(1), vendor |-> "older",
     description |-> "", location |-> "", recovery_type |-> "",
     charged_amount |-> Num(500), reimbursed_amount |-> Num(0),
     invoice |-> "", chq_req |-> "", out_of_pocket |-> Bool(TRUE)]

InitTables ==
    {{}} \cup {{r} : r \in LegacyRows}
         \cup {{r, LegacySecondRow} : r \in {x \in LegacyRows :
                    x.charged_amount = Num(1000) /\ x.out_of_pocket = NullBool}}

NoForm == <<>>

\* The interaction of a cycle and what is known of its outcome so far:
\* `before` is the listing of the table when the write was issued and `at`
\* the value of `others` at that moment.
Event(kind, auth, write, read, rid, form) ==
    [kind |-> kind, auth |-> auth, write |-> write, read |-> read,
     rid |-> rid, form |-> form, before |-> <<>>, at |-> 0]

Init ==
    /\ expenses \in InitTables
    /\ next_id = Cardinality(expenses) + 1
    /\ logged = FALSE
    /\ tries = 0
    /\ df = <<>>
    /\ errors = {}
    /\ exit = "stop_login"
    /\ summary = NoSummary
    /\ downloads = <<>>
    /\ ops = {}
    /\ event = Event("init", "none", "none", "none", 0, NoForm)
    /\ pc = "idle"
    /\ others = 0

ReadResult(ok) == IF ok THEN "ok" ELSE "failed"

\* Sections 6-11 run to the end of the script on DataFrame ld.df, with
\* no button pressed in this run.
RunToEnd(ld, done) ==
    /\ exit' = "end"
    /\ errors' = ld.errors
    /\ df' = ld.df
    /\ summary' = metrics(ld.df)
    /\ downloads' = download_buttons(ld.df)
    /\ ops' = done \cup {"load_data", "summary", "export"}

\* Variant: st.stop() is missing and the script runs on into section 6.
Stop_missing(how, errs) == RunToEnd(load_data(expenses, TRUE), {})

\* The script stops before section 6 (st.stop() at line 117 or 127).
Stop(how, errs) ==
    /\ exit' = how
    /\ errors' = errs
    /\ df' = <<>>
    /\ summary' = NoSummary
    /\ downloads' = <<>>
    /\ ops' = {}

\* The run has passed line 131 with a button pressed and is at the button's
\* handler: the page of the previous run is gone, sections 10-11 are not
\* drawn yet.
Loaded(ld) ==
    /\ exit' = "running"
    /\ errors' = ld.errors
    /\ df' = ld.df
    /\ summary' = NoSummary
    /\ downloads' = <<>>
    /\ ops' = {"load_data"}

\* save_row or delete_row raised: the exception leaves the script at the
\* call, after the load of line 131 and before section 10.
Raise(how, done) ==
    /\ exit' = how
    /\ ops' = ops \cup done
    /\ UNCHANGED <<df, errors, summary, downloads>>

\* What the page shows after a run: the login form (lines 118-121), the
\* add form (lines 139-154), the Delete button (lines 180-181).
LoginFormShown == exit = "stop_login"
AddFormShown == exit \in {"end", "raise_save", "raise_delete"}
DeleteButtonShown == exit \in {"end", "raise_delete"} /\ df # <<>>

(***************************************************************************)
(* A script run with no widget event (the user reruns the page).           *)
(***************************************************************************)
Rerun ==
    /\ pc = "idle"
    /\ UNCHANGED <<expenses, next_id, logged, tries, pc, others>>
    /\ CASE gate(logged, tries) = "pass" ->
                \E ok \in BOOLEAN :
                    /\ RunToEnd(load_data(expenses, ok), {})
                    /\ event' = Event("rerun", "none", "none",
                                      ReadResult(ok), 0, NoForm)
         [] gate(logged, tries) = "locked" ->
                /\ Stop("stop_locked", {"too_many"})
                /\ event' = Event("rerun", "halted", "none", "none", 0, NoForm)
         [] gate(logged, tries) = "login_form" ->
                /\ Stop("stop_login", {})
                /\ event' = Event("rerun", "none", "none", "none", 0, NoForm)

(***************************************************************************)
(* The user submits the login form with user name u and password p.        *)
(***************************************************************************)
LoginSubmit(u, p) ==
    /\ pc = "idle"
    /\ LoginFormShown
    /\ UNCHANGED <<expenses, next_id, pc, others>>
    /\ CASE gate(logged, tries) = "pass" ->
                /\ UNCHANGED <<logged, tries>>
                /\ \E ok \in BOOLEAN :
                    /\ RunToEnd(load_data(expenses, ok), {})
                    /\ event' = Event("login", "none", "none",
                                      ReadResult(ok), 0, NoForm)
         [] gate(logged, tries) = "locked" ->
                /\ UNCHANGED <<logged, tries>>
                /\ Stop("stop_locked", {"too_many"})
                /\ event' = Event("login", "halted", "none", "none", 0, NoForm)
         [] gate(logged, tries) = "login_form" ->
                IF authenticate(u, p)
                THEN /\ logged' = TRUE
                     /\ UNCHANGED tries
                     /\ Stop("stop_login", {})
                     /\ event' = Event("login", "ok", "none", "none", 0, NoForm)
                ELSE /\ tries' = tries + 1
                     /\ UNCHANGED logged
                     /\ Stop("stop_login", {"wrong_credentials"})
                     /\ event' = Event("login", "fail", "none", "none", 0,
                                       NoForm)

(***************************************************************************)
(* The user submits the add form with fields f: the run it starts, up to   *)
(* and including the load_data of line 131.                                *)
(***************************************************************************)
AddSubmit(f) ==
    /\ pc = "idle"
    /\ AddFormShown
    /\ gate(logged, tries) = "pass"
    /\ next_id <= MaxId
    /\ UNCHANGED <<expenses, next_id, logged, tries, others>>
    /\ pc' = "add"
    /\ \E ok1 \in BOOLEAN :
        /\ Loaded(load_data(expenses, ok1))
        /\ event' = Event("add", "none", "none", ReadResult(ok1), 0, <<f>>)

(***************************************************************************)
(* Lines 154-167: save_row in its own transaction.  When it commits,       *)
(* st.experimental_rerun() ends the run and asks for another one; when it  *)
(* raises, the exception ends the run.  A rolled-back INSERT may or may    *)
(* not have drawn a value from the id sequence.                            *)
(***************************************************************************)
AddSave ==
    /\ pc = "add"
    /\ UNCHANGED <<logged, tries, others>>
    /\ \E okw \in BOOLEAN :
        /\ expenses' = save_row(expenses, next_id, form_data(event.form[1]),
                                okw)
        /\ IF okw
           THEN /\ next_id' = next_id + 1
                /\ pc' = "rerun"
                /\ ops' = ops \cup {"save_row"}
                /\ UNCHANGED <<df, errors, exit, summary, downloads>>
                /\ event' = [event EXCEPT
                                !.write = "ok", !.read = "none",
                                !.rid = next_id,
                                !.before = load_data(expenses, TRUE).df,
                                !.at = others]
           ELSE /\ \E drawn \in BOOLEAN :
                    next_id' = IF drawn THEN next_id + 1 ELSE next_id
                /\ pc' = "idle"
                /\ Raise("raise_save", {"save_row"})
                /\ event' = [event EXCEPT !.write = "failed"]

(***************************************************************************)
(* The user clicks Delete with the n-th option of the selectbox chosen     *)
(* (the options shown are the labels of the rows of df, in its order): the *)
(* run it starts, up to the button at line 181.                            *)
(***************************************************************************)
DeleteClick(n) ==
    /\ pc = "idle"
    /\ DeleteButtonShown
    /\ n \in DOMAIN df
    /\ gate(logged, tries) = "pass"
    /\ UNCHANGED <<expenses, next_id, logged, tries, others>>
    /\ \E ok1 \in BOOLEAN :
        LET ld == load_data(expenses, ok1)
        IN  IF ld.df = <<>>
            THEN \* df.empty: the button is not part of this run
                 /\ pc' = "idle"
                 /\ RunToEnd(ld, {})
                 /\ event' = Event("delete", "none", "none", ReadResult(ok1),
                                   0, NoForm)
            ELSE LET rid == choices(ld.df)[selectbox(ld.df, label(df[n]))]
                 IN  /\ pc' = "delete"
                     /\ Loaded(ld)
                     /\ event' = Event("delete", "none", "none", "ok", rid,
                                       NoForm)

(***************************************************************************)
(* Lines 182-183: delete_row in its own transaction, then the rerun        *)
(* request, or the exception.                                              *)
(***************************************************************************)
DeleteExec ==
    /\ pc = "delete"
    /\ UNCHANGED <<next_id, logged, tries, others>>
    /\ \E okw \in BOOLEAN :
        /\ expenses' = delete_row(expenses, event.rid, okw)
        /\ IF okw
           THEN /\ pc' = "rerun"
                /\ ops' = ops \cup {"delete_row"}
                /\ UNCHANGED <<df, errors, exit, summary, downloads>>
                /\ event' = [event EXCEPT
                                !.write = "ok", !.read = "none",
                                !.before = load_data(expenses, TRUE).df,
                                !.at = others]
           ELSE /\ pc' = "idle"
                /\ Raise("raise_delete", {"delete_row"})
                /\ event' = [event EXCEPT !.write = "failed"]

(***************************************************************************)
(* The run that st.experimental_rerun() asked for: the script from the     *)
(* top, no button pressed.                                                 *)
(***************************************************************************)
RerunAfterWrite ==
    /\ pc = "rerun"
    /\ gate(logged, tries) = "pass"
    /\ pc' = "idle"
    /\ UNCHANGED <<expenses, next_id, logged, tries, others>>
    /\ \E ok2 \in BOOLEAN :
        /\ RunToEnd(load_data(expenses, ok2), ops)
        /\ event' = [event EXCEPT !.read = ReadResult(ok2)]

(***************************************************************************)
(* Another session of the app (its own session_state, the same ENGINE and  *)
(* table) commits a save_row or a delete_row.  An id is kept free for an   *)
(* add this session has in progress.                                       *)
(***************************************************************************)
OtherSessionSave(f) ==
    /\ others < MaxOther
    /\ next_id + (IF pc = "add" THEN 1 ELSE 0) <= MaxId
    /\ expenses' = save_row(expenses, next_id, form_data(f), TRUE)
    /\ next_id' = next_id + 1
    /\ others' = others + 1
    /\ UNCHANGED <<logged, tries, df, errors, exit, summary, downloads, ops,
                   event, pc>>

OtherSessionDelete(rid) ==
    /\ others < MaxOther
    /\ rid \in {r.id : r \in expenses}
    /\ expenses' = delete_row(expenses, rid, TRUE)
    /\ others' = others + 1
    /\ UNCHANGED <<next_id, logged, tries, df, errors, exit, summary,
                   downloads, ops, event, pc>>

(***************************************************************************)
(* A new session of the app in the same server process (a new browser tab, *)
(* a reload of the page): the script is handed an st.session_state with no *)
(* keys, lines 110-113 set logged to False and tries to 0, and the first   *)
(* run stops at the login form.  From here on logged, tries and the page   *)
(* are those of the new session; the table and the id sequence are those   *)
(* of the process.                                                         *)
(***************************************************************************)
NewSession ==
    /\ pc = "idle"
    /\ logged' = FALSE
    /\ tries' = 0
    /\ Stop("stop_login", {})
    /\ event' = Event("session", "none", "none", "none", 0, NoForm)
    /\ UNCHANGED <<expenses, next_id, pc, others>>

Next ==
    \/ NewSession
    \/ Rerun
    \/ \E u \in UserNames, p \in Passwords : LoginSubmit(u, p)
    \/ \E f \in Forms : AddSubmit(f)
    \/ AddSave
    \/ \E n \in 1..MaxId : DeleteClick(n)
    \/ DeleteExec
    \/ RerunAfterWrite
    \/ \E f \in Forms : OtherSessionSave(f)
    \/ \E rid \in 1..MaxId : OtherSessionDelete(rid)

Spec == Init /\ [][Next]_vars

(***************************************************************************)
(* The store functions called directly, with any argument: delete_row with *)
(* any id, present or not.                                                 *)
(***************************************************************************)
CallReturns(ok) == IF ok THEN "return" ELSE "raise"

CallSaveRow(f) ==
    /\ next_id <= MaxId
    /\ \E ok \in BOOLEAN :
        /\ expenses' = save_row(expenses, next_id, form_data(f), ok)
        /\ IF ok THEN next_id' = next_id + 1
                 ELSE \E drawn \in BOOLEAN :
                        next_id' = IF drawn THEN next_id + 1 ELSE next_id
        /\ exit' = CallReturns(ok)
        /\ event' = Event("save_row", "none", ReadResult(ok), "none",
                          IF ok THEN next_id ELSE 0, <<f>>)
    /\ ops' = {"save_row"}
    /\ errors' = {}
    /\ UNCHANGED <<logged, tries, df, summary, downloads, pc, others>>

CallDeleteRow(rid) ==
    /\ \E ok \in BOOLEAN :
        /\ expenses' = delete_row(expenses, rid, ok)
        /\ exit' = CallReturns(ok)
        /\ event' = Event("delete_row", "none", ReadResult(ok), "none", rid,
                          NoForm)
    /\ ops' = {"delete_row"}
    /\ errors' = {}
    /\ UNCHANGED <<next_id, logged, tries, df, summary, downloads, pc,
                   others>>

CallLoadData ==
    /\ \E ok \in BOOLEAN :
        LET ld == load_data(expenses, ok)
        IN  /\ df' = ld.df
            /\ errors' = ld.errors
            /\ event' = Event("load_data", "none", "none", ReadResult(ok), 0,
                              NoForm)
    /\ exit' = "return"
    /\ ops' = {"load_data"}
    /\ UNCHANGED <<expenses, next_id, logged, tries, summary, downloads, pc,
                   others>>

NextCalls ==
    \/ \E f \in Forms : CallSaveRow(f)
    \/ \E rid \in 1..(MaxId + 1) : CallDeleteRow(rid)
    \/ CallLoadData

SpecCalls == Init /\ [][NextCalls]_vars

(***************************************************************************)
(* Properties.                                                             *)
(***************************************************************************)
Ids(table) == {r.id : r \in table}

\* The write of the cycle of event e (save_row for "add", delete_row for
\* "delete") has committed.
Committed(e, kind) == e.kind = kind /\ e.write = "ok"

\* The step is the second run of a write cycle, the one whose load_data
\* makes the listing that follows the write.
ListingStep == pc = "rerun" /\ pc' = "idle"

\* No other session has committed a write since the write of event e.
Undisturbed(e, n) == e.at = n

\* Rule A on one listed record.
RuleA(r) ==
    r.reimbursed_amount = IF r.out_of_pocket THEN 0 ELSE r.charged_amount

\* C1: every record of the DataFrame returned by load_data satisfies Rule A
\* (reimbursed_amount is 0 when out_of_pocket, charged_amount otherwise),
\* after any adds and deletes and whatever reimbursed_amount the table holds.
C1_ListedRecordsSatisfyRuleA == \A i \in DOMAIN df : RuleA(df[i])

\* A delete has been listed, and the listing holds the row whose stored
\* reimbursed_amount (777) is not what Rule A derives.
C1_Witness ==
    /\ pc = "idle"
    /\ Committed(event, "delete")
    /\ event.read = "ok"
    /\ \E i \in DOMAIN df, r \in expenses :
        /\ r.id = df[i].id
        /\ r.reimbursed_amount = Num(777)
        /\ df[i].reimbursed_amount # 777

\* What one record contributes to the amount spent.
RowSpent(r) ==
    IF r.out_of_pocket THEN r.charged_amount
    ELSE r.charged_amount - r.reimbursed_amount

RECURSIVE TotalSpent(_)
TotalSpent(d) == IF d = <<>> THEN 0 ELSE RowSpent(Head(d)) + TotalSpent(Tail(d))

ExampleRecords ==
    /\ Len(df) = 2
    /\ \E i, j \in DOMAIN df :
        /\ df[i].charged_amount = 1000 /\ ~df[i].out_of_pocket
        /\ df[j].charged_amount = 500 /\ df[j].out_of_pocket

\* C2: the summary's spent is the sum of charged_amount over the
\* out-of-pocket records plus the sum of charged_amount - reimbursed_amount
\* over the others, and remaining is the budget total minus spent; the
\* records {1000, not out-of-pocket} and {500, out-of-pocket} give spent 500.
C2_SummaryFormula ==
    summary.shown =>
        /\ summary.spent = TotalSpent(df)
        /\ summary.remaining = summary.total - summary.spent
        /\ summary.total = BUDGET
        /\ ExampleRecords =>
            summary.spent = 500 /\ summary.remaining = BUDGET - 500

C2_Witness == summary.shown /\ ExampleRecords

\* A listed record carries the submitted fields and the derived
\* reimbursed_amount.
SameFields(r, f) ==
    /\ date_of(r.date) = f.date
    /\ r.date.ns = 0
    /\ r.vendor = f.vendor
    /\ r.description = f.description
    /\ r.location = f.location
    /\ r.recovery_type = f.recovery_type
    /\ r.charged_amount = f.charged_amount
    /\ r.invoice = f.invoice
    /\ r.chq_req = f.chq_req
    /\ r.out_of_pocket = f.out_of_pocket
    /\ r.reimbursed_amount = IF f.out_of_pocket THEN 0 ELSE f.charged_amount

\* What C3 says of the listing d that follows the save_row of event e: a
\* record of d carries the submitted fields with the derived
\* reimbursed_amount, and every record listed before the save is in d.
AddListed(e, d) ==
    /\ \E i \in DOMAIN d :
        /\ d[i].id = e.rid
        /\ SameFields(d[i], e.form[1])
    /\ Range(e.before) \subseteq Range(d)

\* C3 as stated: after a committed save_row of the submitted fields f, the
\* load_data that follows yields a sequence holding a record with f's fields
\* and the derived reimbursed_amount, and every record present before.
C3_AddThenListRoundTrip ==
    [][(ListingStep /\ Committed(event', "add")) =>
        AddListed(event', df')]_vars

\* C3, amended: after a committed save_row of the submitted fields f, when
\* the load_data that follows does not fail and no other session has
\* committed a write between the two, that load_data yields a sequence
\* holding a record with f's fields and the derived reimbursed_amount, and
\* every record present before.
C3_AddThenListRoundTripReadOkUndisturbed ==
    [][(/\ ListingStep
        /\ Committed(event', "add")
        /\ event'.read = "ok"
        /\ Undisturbed(event', others')) =>
            AddListed(event', df')]_vars

\* An add has been listed next to two records that were there before, the
\* read having succeeded with no write of another session in between.
C3_Witness ==
    /\ pc = "idle"
    /\ Committed(event, "add")
    /\ event.read = "ok"
    /\ Undisturbed(event, others)
    /\ Len(event.before) = 2
    /\ Len(df) = 3
    /\ SameFields(df[3], event.form[1])

\* What C4 says of the listing d that follows the delete_row of event e:
\* the deleted id is in no record of d, every other record listed before
\* the delete is in d with its fields unchanged, and those records stand in
\* d in the order they had before, which is ascending id.
DeleteListed(e, d) ==
    /\ \A i \in DOMAIN d : d[i].id # e.rid
    /\ \A k \in DOMAIN e.before :
        e.before[k].id # e.rid => \E i \in DOMAIN d : d[i] = e.before[k]
    /\ \A k, l \in DOMAIN e.before : \A i, j \in DOMAIN d :
        (k < l /\ d[i] = e.before[k] /\ d[j] = e.before[l]) =>
            i < j /\ d[i].id < d[j].id

\* C4 as stated: after a committed delete_row of an id, the listing that
\* follows has no record of that id, has every other record with unchanged
\* fields, in the same relative (ascending id) order as before the delete.
C4_DeleteThenListKeepsOthers ==
    [][(ListingStep /\ Committed(event', "delete")) =>
        DeleteListed(event', df')]_vars

\* C4, amended: after a committed delete_row of an id, when the load_data
\* that follows does not fail and no other session has committed a write
\* between the two, the listing has no record of that id, has every other
\* record with unchanged fields, in the same relative (ascending id) order
\* as before the delete.
C4_DeleteThenListKeepsOthersReadOkUndisturbed ==
    [][(/\ ListingStep
        /\ Committed(event', "delete")
        /\ event'.read = "ok"
        /\ Undisturbed(event', others')) =>
            DeleteListed(event', df')]_vars

\* The middle one of three records has been deleted and the other two are
\* listed in their order, the read having succeeded with no write of
\* another session in between.
C4_Witness ==
    /\ pc = "idle"
    /\ Committed(event, "delete")
    /\ event.read = "ok"
    /\ Undisturbed(event, others)
    /\ Len(event.before) = 3
    /\ event.before[2].id = event.rid
    /\ df = <<event.before[1], event.before[3]>>

\* C5: delete_row with an id that is in no row of the table returns
\* without raising, shows no error and leaves the table as it was.
C5_DeleteMissingIdIsNoOp ==
    [][(/\ event'.kind = "delete_row"
        /\ event'.write = "ok"
        /\ event'.rid \notin Ids(expenses)) =>
            /\ expenses' = expenses
            /\ exit' = "return"
            /\ errors' = {}]_vars

\* delete_row has returned for an id that was never handed out, with rows
\* in the table.
C5_Witness ==
    /\ event.kind = "delete_row"
    /\ event.write = "ok"
    /\ event.rid >= next_id
    /\ exit = "return"
    /\ Cardinality(expenses) >= 2

\* C6: the two export views partition the listed records: the first holds
\* only records that are not out-of-pocket, the second only records that
\* are, each in the order of the listing, and every listed record is in
\* exactly one of them.
C6_ExportViewsPartition ==
    downloads # <<>> =>
        LET re == downloads[1].data.rows
            oo == downloads[2].data.rows
        IN  /\ Len(re) + Len(oo) = Len(df)
            /\ \A k \in DOMAIN re : ~re[k]["Out of Pocket?"]
            /\ \A k \in DOMAIN oo : oo[k]["Out of Pocket?"]
            /\ \A i \in DOMAIN df :
                LET view == IF df[i].out_of_pocket THEN oo ELSE re
                    k == Cardinality({j \in 1..i :
                            df[j].out_of_pocket = df[i].out_of_pocket})
                IN  /\ k <= Len(view)
                    /\ view[k] = prettify_row(df[i])

\* Three records are listed, an out-of-pocket one between two others that
\* differ from each other.
C6_Witness ==
    /\ downloads # <<>>
    /\ Len(df) = 3
    /\ ~df[1].out_of_pocket /\ df[2].out_of_pocket /\ ~df[3].out_of_pocket
    /\ prettify_row(df[1]) # prettify_row(df[3])
    /\ Len(downloads[1].data.rows) = 2

\* A step of this session (a step of another session leaves event as it
\* is and counts in `others`).
OwnStep == others' = others

\* The step hands the script a new st.session_state: logged and tries
\* before it and after it are those of two different sessions.
NewSessionStep == OwnStep /\ event'.kind = "session"

\* C7 as stated: a failed credential check adds exactly one to tries and
\* nothing else changes tries (no reset while the process runs); once tries
\* has reached 5, every later login submission is halted without a
\* credential check, logged stays false and tries keeps its value.
C7_LoginLockout ==
    [][/\ (OwnStep /\ event'.kind = "login" /\ event'.auth = "fail") =>
            tries' = tries + 1
       /\ tries' # tries =>
            tries' = tries + 1 /\ event'.kind = "login" /\ event'.auth = "fail"
       /\ tries' <= 5
       /\ tries >= 5 =>
            /\ ~logged /\ ~logged'
            /\ tries' = tries
            /\ OwnStep => event'.auth \notin {"ok", "fail"}
            /\ (OwnStep /\ event'.kind = "login") =>
                event'.auth = "halted" /\ exit' = "stop_locked"]_vars

\* C8: when a load_data of this session fails, the error is shown, the
\* DataFrame is empty, a summary rendered from it shows spent 0 and the
\* full budget remaining, and the table is left as it was.
C8_ReadFailureFallsBackToEmpty ==
    [][(event'.read = "failed" /\ OwnStep) =>
        /\ "db_error" \in errors'
        /\ df' = <<>>
        /\ exit' = "end" =>
            summary' = [shown |-> TRUE, total |-> BUDGET, spent |-> 0,
                        remaining |-> BUDGET]
        /\ expenses' = expenses]_vars

\* A cycle without a write has failed to read a table that holds an
\* out-of-pocket row with a positive amount; the summary shows spent 0.
C8_Witness ==
    /\ event.kind = "rerun"
    /\ event.read = "failed"
    /\ \E r \in expenses :
        r.out_of_pocket = Bool(TRUE) /\ r.charged_amount = Num(1000)
    /\ summary.shown
    /\ summary.spent = 0
    /\ "db_error" \in errors

\* C9: a failed write (save_row or delete_row) is shown as an error by a
\* script run that goes on to its end, and the table is left unchanged.
C9_WriteFailureIsRecoverable ==
    [][(event'.write = "failed" /\ OwnStep) =>
        /\ expenses' = expenses
        /\ exit' = "end"
        /\ errors' # {}
        /\ summary'.shown]_vars

\* C10: a cycle performs ledger operations only when the session's logged
\* is true at its start; logged becomes true only by a successful
\* authenticate in a login submission made with tries below 5; once true,
\* the session's logged never becomes false (a new session starts with a
\* flag of its own).
C10_AuthenticationGate ==
    [][/\ ops' # {} => logged
       /\ (~logged /\ logged') =>
            /\ tries < 5
            /\ event'.kind = "login"
            /\ event'.auth = "ok"
            /\ ops' = {}
       /\ (logged /\ ~NewSessionStep) => logged']_vars

\* A login has succeeded after failed attempts, with no ledger operation
\* in that cycle.
C10_Witness ==
    /\ logged
    /\ tries > 0
    /\ event.kind = "login"
    /\ event.auth = "ok"
    /\ ops = {}
    /\ df = <<>>

====
